---- MODULE Spec2Model ----
(***************************************************************************)
(* wagtail_graphql: the registration driver (actions.py) that fills the    *)
(* process-wide registry with GraphQL types built from model classes, and  *)
(* the query-root resolvers (types/core.py) that read pages through the    *)
(* permission filter.                                                      *)
(*                                                                         *)
(* Python str values are sequences of one-character strings, None is the   *)
(* empty set and a present value x is {x}.                                 *)
(***************************************************************************)
EXTENDS Integers, Sequences, FiniteSets, TLC

VARIABLES
    config,       \* SETTINGS / URL_PREFIX / settings_registry read at startup
    pc,           \* position of add_apps_with_settings: 0 = line 179, k = k-th APPS entry
    registry,     \* the process-wide registry object
    types,        \* every class created by a type(...) call, in creation order
    calls,        \* the add_app calls made so far, in order
    hidden,       \* data source: page ids the permission filter hides, per context
    submissions,  \* process_form_submission invocations, in order
    last          \* the latest resolver call and what it returned or raised

vars == <<config, pc, registry, types, calls, hidden, submissions, last>>

(***************************************************************************)
(* Bounds                                                                  *)
(***************************************************************************)
\* longest SETTINGS['APPS'] list explored
MaxApps == 2

None == {}
Some(x) == {x}

(***************************************************************************)
(* str primitives                                                          *)
(***************************************************************************)
UC == <<"A","B","C","D","E","F","G","H","I","J","K","L","M",
        "N","O","P","Q","R","S","T","U","V","W","X","Y","Z">>
LC == <<"a","b","c","d","e","f","g","h","i","j","k","l","m",
        "n","o","p","q","r","s","t","u","v","w","x","y","z">>

IsUpper(c) == \E i \in 1..Len(UC) : UC[i] = c
IsLower(c) == \E i \in 1..Len(LC) : LC[i] = c
ToLower(c) == IF IsUpper(c) THEN LC[CHOOSE i \in 1..Len(UC) : UC[i] = c] ELSE c
ToUpper(c) == IF IsLower(c) THEN UC[CHOOSE i \in 1..Len(LC) : LC[i] = c] ELSE c

\* str.lower()
str_lower(s) == [i \in 1..Len(s) |-> ToLower(s[i])]

\* str.capitalize(): first character upper-cased, the rest lower-cased
str_capitalize(s) == [i \in 1..Len(s) |-> IF i = 1 THEN ToUpper(s[i]) ELSE ToLower(s[i])]

\* django.utils.text.capfirst: only the first character is upper-cased
capfirst(s) == [i \in 1..Len(s) |-> IF i = 1 THEN ToUpper(s[i]) ELSE s[i]]

\* str.rstrip(ch): drop every trailing ch
RECURSIVE rstrip(_, _)
rstrip(s, ch) ==
    IF Len(s) > 0 /\ s[Len(s)] = ch THEN rstrip(SubSeq(s, 1, Len(s) - 1), ch) ELSE s

\* str.lstrip(ch): drop every leading ch
RECURSIVE lstrip(_, _)
lstrip(s, ch) ==
    IF Len(s) > 0 /\ s[1] = ch THEN lstrip(SubSeq(s, 2, Len(s)), ch) ELSE s

\* str.startswith
startswith(s, p) == Len(p) <= Len(s) /\ SubSeq(s, 1, Len(p)) = p

\* str.split(sep) for a one-character sep: empty pieces are kept
RECURSIVE str_split(_, _)
str_split(s, sep) ==
    IF \A i \in 1..Len(s) : s[i] # sep
    THEN <<s>>
    ELSE LET i == CHOOSE j \in 1..Len(s) :
                      s[j] = sep /\ \A k \in 1..(j - 1) : s[k] # sep
         IN  <<SubSeq(s, 1, i - 1)>> \o str_split(SubSeq(s, i + 1, Len(s)), sep)

\* sep.join(pieces)
RECURSIVE str_join(_, _)
str_join(pieces, sep) ==
    IF Len(pieces) = 0 THEN <<>>
    ELSE IF Len(pieces) = 1 THEN pieces[1]
    ELSE pieces[1] \o sep \o str_join(Tail(pieces), sep)

\* string.capwords(s, sep): sep None splits on blanks and drops empty words
capwords(s, sep) ==
    LET raw   == str_split(s, IF sep = None THEN " " ELSE CHOOSE c \in sep : TRUE)
        words == IF sep = None THEN SelectSeq(raw, LAMBDA w : Len(w) > 0) ELSE raw
        caps  == [i \in 1..Len(words) |-> str_capitalize(words[i])]
    IN  str_join(caps, IF sep = None THEN <<" ">> ELSE <<CHOOSE c \in sep : TRUE>>)

\* str.replace(ch, '') for a one-character ch
str_remove(s, ch) == SelectSeq(s, LAMBDA c : c # ch)

\* prefix.format(app=..., cls=...): a template is a sequence whose elements are
\* literal characters or the replacement fields "{app}" and "{cls}"
RECURSIVE str_format(_, _, _)
str_format(template, app, cls) ==
    IF Len(template) = 0 THEN <<>>
    ELSE (IF template[1] = "{app}" THEN app
          ELSE IF template[1] = "{cls}" THEN cls
          ELSE <<template[1]>>) \o str_format(Tail(template), app, cls)

(***************************************************************************)
(* The model classes the data source knows (django.contrib.contenttypes,   *)
(* wagtail.snippets) and what the driver reads from each of them           *)
(***************************************************************************)
AppA == <<"a","a">>
AppB == <<"b","b">>
\* the well-known settings source of add_apps_with_settings
SettingsApp == <<"w","a","g","t","a","i","l",".","c","o","n","t","r","i","b",".","s","e","t","t","i","n","g","s">>
Apps == {AppA, AppB}

Advert  == [app |-> AppA, name |-> <<"A","d">>]
Blog    == [app |-> AppA, name |-> <<"B","l","o","g">>]
Form    == [app |-> AppA, name |-> <<"F","o","r","m">>]
AuthorA == [app |-> AppA, name |-> <<"A","u">>]
Promo   == [app |-> AppB, name |-> <<"P","r","o","m","o">>]
Conf    == [app |-> AppB, name |-> <<"C","o","n","f">>]
AuthorB == [app |-> AppB, name |-> <<"A","u">>]
\* wagtail.core.models.Page itself: the class of a page that has no subclass row
BasePage == [app |-> <<"w","a","g","t","a","i","l","c","o","r","e">>, name |-> <<"P","a","g","e">>]

Classes == {Advert, Blog, Form, AuthorA, Promo, Conf, AuthorB}

\* get_snippet_models(): the classes decorated with register_snippet
get_snippet_models == <<Advert, Promo>>

\* [mdl.model_class() for mdl in ContentType.objects.filter(app_label=app)]:
\* a stale content type yields None
model_classes(app) ==
    IF app = AppA THEN <<Some(Advert), Some(Blog), Some(Form), Some(AuthorA)>>
    ELSE IF app = AppB THEN <<Some(Promo), Some(Conf), None, Some(AuthorB)>>
    ELSE <<>>

\* issubclass(cls, base); AbstractForm is itself a subclass of Page
issubclass(cls, base) ==
    CASE base = "AbstractForm" -> cls \in {Form}
      [] base = "wagtailPage"  -> cls \in {Blog, Form, Promo, BasePage}
      [] base = "BaseSetting"  -> cls \in {Conf}
      [] OTHER                 -> FALSE

\* cls._meta.verbose_name
verbose_name(cls) == IF cls = Conf THEN <<"s","i","t","e"," ","c","o","n","f">> ELSE str_lower(cls.name)

\* the names of the StreamField fields among cls._meta.fields, in field order
stream_fields(cls) ==
    IF cls = Blog THEN <<<<"b","o","d","y">>, <<"s","i","d","e","_","b","a","r">>>>
    ELSE IF cls = Advert THEN <<<<"t","e","x","t">>>>
    ELSE <<>>

(***************************************************************************)
(* actions.py: the type builders                                           *)
(***************************************************************************)
EmptyRegistry ==
    [pages |-> <<>>, forms |-> <<>>, settings |-> <<>>, snippets |-> <<>>,
     snippets_by_name |-> <<>>, django |-> <<>>, page_prefetch_fields |-> {}]

\* d[k] = v on a dict: an unconditional overwrite
SetItem(d, k, v) == (k :> v) @@ d

\* the class statement "class Meta" and dict_params = {'Meta': Meta} of _register_model
NewDictParams(cls) == [model |-> cls, interfaces |-> {}, fields |-> {}]

\* type(name, (base,), dict_params): a class object distinct from every earlier one
NewType(w, name, base, dict_params, url_prefix) ==
    [serial |-> Len(w.types) + 1, name |-> name, base |-> base,
     model |-> dict_params.model, interfaces |-> dict_params.interfaces,
     fields |-> dict_params.fields, url_prefix |-> url_prefix]

NoUrlPrefix == <<>>

FormFieldsName == <<"f","o","r","m","_","f","i","e","l","d","s">>
MutationSuffix == <<"M","u","t","a","t","i","o","n">>

\* variant of _add_form that leaves registry.pages alone
add_form_no_pages(w, cls, node, dict_params, url_prefix) ==
    LET dp  == [dict_params EXCEPT !.interfaces = {"PageInterface"},
                                   !.fields = @ \cup {[name |-> FormFieldsName,
                                                       type |-> [kind |-> "List", of |-> <<"F","o","r","m","F","i","e","l","d">>]]}]
        tp  == NewType(w, node, "DjangoObjectType", dp, NoUrlPrefix)
        w1  == [w EXCEPT !.types = Append(@, tp)]
        mt  == NewType(w1, node \o MutationSuffix, "Mutation",
                       [model |-> cls, interfaces |-> {}, fields |-> {}], url_prefix)
    IN  [w1 EXCEPT !.types = Append(@, mt),
                   !.registry.page_prefetch_fields = @ \cup {str_lower(cls.name)},
                   !.registry.forms = SetItem(@, node, mt)]

\* _add_form: the page type goes into pages, the mutation type into forms
add_form(w, cls, node, dict_params, url_prefix) ==
    LET dp  == [dict_params EXCEPT !.interfaces = {"PageInterface"},
                                   !.fields = @ \cup {[name |-> FormFieldsName,
                                                       type |-> [kind |-> "List", of |-> <<"F","o","r","m","F","i","e","l","d">>]]}]
        tp  == NewType(w, node, "DjangoObjectType", dp, NoUrlPrefix)
        w1  == [w EXCEPT !.types = Append(@, tp),
                         !.registry.page_prefetch_fields = @ \cup {str_lower(cls.name)},
                         !.registry.pages = SetItem(@, cls, tp)]
        mt  == NewType(w1, node \o MutationSuffix, "Mutation",
                       [model |-> cls, interfaces |-> {}, fields |-> {}], url_prefix)
    IN  [w1 EXCEPT !.types = Append(@, mt),
                   !.registry.forms = SetItem(@, node, mt)]

add_page(w, cls, node, dict_params) ==
    LET dp == [dict_params EXCEPT !.interfaces = {"PageInterface"}]
        tp == NewType(w, node, "DjangoObjectType", dp, NoUrlPrefix)
    IN  [w EXCEPT !.types = Append(@, tp),
                  !.registry.page_prefetch_fields = @ \cup {str_lower(cls.name)},
                  !.registry.pages = SetItem(@, cls, tp)]

add_setting(w, cls, node, dict_params) ==
    LET dp == [dict_params EXCEPT !.interfaces = {"Settings"}]
        tp == NewType(w, node, "DjangoObjectType", dp, NoUrlPrefix)
    IN  [w EXCEPT !.types = Append(@, tp),
                  !.registry.settings = SetItem(@, capfirst(verbose_name(cls)), cls)]

add_snippet(w, cls, node, dict_params) ==
    LET tp == NewType(w, node, "DjangoObjectType", dict_params, NoUrlPrefix)
    IN  [w EXCEPT !.types = Append(@, tp),
                  !.registry.snippets = SetItem(@, cls, tp),
                  !.registry.snippets_by_name = SetItem(@, node, tp)]

add_django_model(w, cls, node, dict_params) ==
    LET tp == NewType(w, node, "DjangoObjectType", dict_params, NoUrlPrefix)
    IN  [w EXCEPT !.types = Append(@, tp),
                  !.registry.django = SetItem(@, node, tp)]

\* the field and its resolver that _add_streamfields puts into dict_params for
\* every StreamField of the class
add_streamfields(cls, node, dict_params, app, prefix) ==
    LET names == stream_fields(cls)
        entry(field_name) ==
            [name |-> field_name,
             type |-> [kind |-> "StreamField",
                       of |-> node \o str_remove(capwords(field_name, Some("_")), "_")]]
    IN  [dict_params EXCEPT !.fields = @ \cup {entry(names[i]) : i \in 1..Len(names)}]

(***************************************************************************)
(* actions.py: the registration driver                                     *)
(***************************************************************************)
\* _register_model: the seen-guard, the node name, then the builder chosen by
\* snippet > AbstractForm > Page > BaseSetting > plain model. Returns the
\* registry/type state and the updated `registered` set.
register_model(w, registered, cls, snippet, app, prefix, url_prefix) ==
    IF cls \in registered
    THEN [w |-> w, registered |-> registered]
    ELSE LET prefix2     == str_format(prefix, capwords(app, None), cls.name)
             node        == prefix2 \o cls.name
             dict_params == add_streamfields(cls, node, NewDictParams(cls), app, prefix2)
             w2 == IF snippet THEN add_snippet(w, cls, node, dict_params)
                   ELSE IF issubclass(cls, "AbstractForm")
                        THEN add_form(w, cls, node, dict_params, url_prefix)
                   ELSE IF issubclass(cls, "wagtailPage")
                        THEN add_page(w, cls, node, dict_params)
                   ELSE IF issubclass(cls, "BaseSetting")
                        THEN add_setting(w, cls, node, dict_params)
                   ELSE add_django_model(w, cls, node, dict_params)
         IN  [w |-> w2, registered |-> registered \cup {cls}]

\* to_register of add_app: snippets + models without the None entries
to_register(app) ==
    LET snippets == get_snippet_models
        combined == [i \in 1..Len(snippets) |-> Some(snippets[i])] \o model_classes(app)
        kept     == SelectSeq(combined, LAMBDA x : x # None)
    IN  [i \in 1..Len(kept) |-> CHOOSE c \in kept[i] : TRUE]

InSeq(x, s) == \E i \in 1..Len(s) : s[i] = x

\* the for loop of add_app from position i on, with the call-local `registered`
\* (r \in {e} evaluates e once and names its value)
RECURSIVE register_all(_, _, _, _, _, _, _)
register_all(w, registered, todo, i, app, prefix, url_prefix) ==
    IF i > Len(todo) THEN w
    ELSE CHOOSE out \in
             { register_all(r.w, r.registered, todo, i + 1, app, prefix, url_prefix) :
                  r \in { register_model(w, registered, todo[i],
                                         InSeq(todo[i], get_snippet_models),
                                         app, prefix, url_prefix) } } : TRUE

\* add_app(app, prefix, url_prefix): `registered` starts empty on every call.
\* `calls` records the call and the serials of the types it created.
add_app(w, app, prefix, url_prefix) ==
    CHOOSE out \in
        { [w2 EXCEPT !.calls = Append(@, [app |-> app, prefix |-> prefix,
                                          url_prefix |-> url_prefix,
                                          first |-> Len(w.types) + 1,
                                          last |-> Len(w2.types)])] :
             w2 \in { register_all(w, {}, to_register(app), 1, app, prefix, url_prefix) } } : TRUE

\* the default of add_app's prefix parameter and of prefixes.get(app, '{app}')
DefaultPrefix == <<"{app}">>

\* lines 183-187: SETTINGS['PREFIX'] is one template for every source, or a
\* mapping from source to template
configured_prefix(settings, app) ==
    IF settings.PREFIX.is_str THEN settings.PREFIX.str
    ELSE IF app \in DOMAIN settings.PREFIX.dict THEN settings.PREFIX.dict[app]
    ELSE DefaultPrefix

World == [registry |-> registry, types |-> types, calls |-> calls]

SetWorld(w) ==
    \E w2 \in {w} :
        /\ registry' = w2.registry
        /\ types' = w2.types
        /\ calls' = w2.calls

\* add_apps_with_settings, line 179-180: the settings source goes first when
\* any setting type exists
AddSettingsApp ==
    /\ pc = 0
    /\ config.settings_registry
    /\ SetWorld(add_app(World, SettingsApp, DefaultPrefix, NoUrlPrefix))
    /\ pc' = 1
    /\ UNCHANGED <<config, hidden, submissions, last>>

SkipSettingsApp ==
    /\ pc = 0
    /\ ~config.settings_registry
    /\ pc' = 1
    /\ UNCHANGED <<config, registry, types, calls, hidden, submissions, last>>

\* add_apps_with_settings, line 182-188: the pc-th entry of SETTINGS['APPS']
AddConfiguredApp ==
    /\ pc \in 1..Len(config.APPS)
    /\ LET app == config.APPS[pc]
       IN  SetWorld(add_app(World, app, configured_prefix(config, app), config.URL_PREFIX))
    /\ pc' = pc + 1
    /\ UNCHANGED <<config, hidden, submissions, last>>

DriverDone == pc = Len(config.APPS) + 1

\* the whole of add_apps_with_settings, as the state it leaves behind
RECURSIVE run_apps(_, _, _)
run_apps(w, settings, k) ==
    IF k > Len(settings.APPS) THEN w
    ELSE CHOOSE out \in
             { run_apps(w2, settings, k + 1) :
                  w2 \in { add_app(w, settings.APPS[k],
                                   configured_prefix(settings, settings.APPS[k]),
                                   settings.URL_PREFIX) } } : TRUE

add_apps_with_settings(settings) ==
    CHOOSE out \in
        { run_apps(w1, settings, 1) :
             w1 \in { IF settings.settings_registry
                      THEN add_app([registry |-> EmptyRegistry, types |-> <<>>, calls |-> <<>>],
                                   SettingsApp, DefaultPrefix, NoUrlPrefix)
                      ELSE [registry |-> EmptyRegistry, types |-> <<>>, calls |-> <<>>] } } : TRUE

(***************************************************************************)
(* The data source: wagtailPage.objects                                    *)
(***************************************************************************)
\* path is the treebeard path, one number per fixed-width step, so that the
\* order of the path strings is the lexicographic order of these sequences
PageRows ==
    { [id |-> 1, path |-> <<1>>,       depth |-> 1, url_path |-> <<"/">>,
       live |-> TRUE,  show_in_menus |-> FALSE, cls |-> BasePage],
      [id |-> 2, path |-> <<1,1>>,     depth |-> 2, url_path |-> <<"/","h","/">>,
       live |-> TRUE,  show_in_menus |-> FALSE, cls |-> Blog],
      [id |-> 3, path |-> <<1,1,1>>,   depth |-> 3, url_path |-> <<"/","h","/","a","b","/">>,
       live |-> TRUE,  show_in_menus |-> TRUE,  cls |-> Blog],
      [id |-> 4, path |-> <<1,1,2>>,   depth |-> 3, url_path |-> <<"/","h","/","c","/">>,
       live |-> TRUE,  show_in_menus |-> TRUE,  cls |-> Form],
      [id |-> 5, path |-> <<1,1,3>>,   depth |-> 3, url_path |-> <<"/","h","/","d","/">>,
       live |-> FALSE, show_in_menus |-> TRUE,  cls |-> Blog],
      [id |-> 6, path |-> <<1,1,1,1>>, depth |-> 4, url_path |-> <<"/","h","/","a","b","/","x","/">>,
       live |-> TRUE,  show_in_menus |-> TRUE,  cls |-> Blog],
      [id |-> 7, path |-> <<1,1,4>>,   depth |-> 3, url_path |-> <<"/","h","/","p","/">>,
       live |-> TRUE,  show_in_menus |-> FALSE, cls |-> Promo] }

PageIds == {p.id : p \in PageRows}
Contexts == {"anon", "staff"}

\* lexicographic order of two paths
RECURSIVE PathLess(_, _)
PathLess(a, b) ==
    IF Len(a) = 0 THEN Len(b) > 0
    ELSE IF Len(b) = 0 THEN FALSE
    ELSE IF a[1] # b[1] THEN a[1] < b[1]
    ELSE PathLess(Tail(a), Tail(b))

\* QuerySet.order_by('path'): the rows as a list, ascending by path
RECURSIVE order_by_path(_)
order_by_path(qs) ==
    IF qs = {} THEN <<>>
    ELSE LET p == CHOOSE x \in qs : \A y \in qs \ {x} : PathLess(x.path, y.path)
         IN  <<p>> \o order_by_path(qs \ {p})

\* QuerySet.first() of a query set of wagtailPage.objects, whose manager orders
\* by path: the row with the lowest path, or None
first(qs) ==
    IF qs = {} THEN None
    ELSE Some(CHOOSE x \in qs : \A y \in qs \ {x} : PathLess(x.path, y.path))

\* QuerySet.live()
live(qs) == {p \in qs : p.live}

\* variant of child_of: PageQuerySet.descendant_of(other), every page below other
descendant_of(qs, other) ==
    {p \in qs : startswith(p.path, other.path) /\ p.depth > other.depth}

\* PageQuerySet.child_of(other): the direct children of other
child_of(qs, other) ==
    {p \in qs : startswith(p.path, other.path) /\ p.depth = other.depth + 1}

\* permissions.with_page_permissions(context, queryset): narrows the query set
\* to what the request may see
with_page_permissions(context, qs) == {p \in qs : p.id \notin hidden[context]}

(***************************************************************************)
(* types/core.py: PageInterface.resolve_type                               *)
(***************************************************************************)
Raise(op, args, exc) == [op |-> op, args |-> args, raised |-> exc, value |-> None]
Return(op, args, v) == [op |-> op, args |-> args, raised |-> "", value |-> Some(v)]

\* the class looked up in registry.pages: for an int, type(... .specific().first()),
\* which is NoneType when no page has that id; otherwise the class the
\* instance's content type names
\* variant of the lookup key in which the int branch leaves out .specific()
resolved_class_unspecific(instance) ==
    IF instance.is_int
    THEN IF first({p \in PageRows : p.id = instance.id}) = None THEN None ELSE Some(BasePage)
    ELSE {p.cls : p \in {q \in PageRows : q.id = instance.id}}

resolved_class(instance) ==
    IF instance.is_int
    THEN {p.cls : p \in first({p \in PageRows : p.id = instance.id})}
    ELSE {p.cls : p \in {q \in PageRows : q.id = instance.id}}

resolve_type(reg, instance) ==
    LET key == resolved_class(instance)
    IN  IF key # None /\ (CHOOSE c \in key : TRUE) \in DOMAIN reg.pages
        THEN Return("resolve_type", instance, reg.pages[CHOOSE c \in key : TRUE])
        ELSE Raise("resolve_type", instance, "KeyError")

\* an int is a page id (9 is the id of no page); an object is a loaded page
Instances ==
    [is_int : {TRUE}, id : PageIds \cup {9}] \cup [is_int : {FALSE}, id : PageIds]

ResolveType ==
    /\ \E instance \in Instances : last' = resolve_type(registry, instance)
    /\ UNCHANGED <<config, pc, registry, types, calls, hidden, submissions>>

(***************************************************************************)
(* Startup configurations                                                  *)
(***************************************************************************)
RECURSIVE SeqsUpTo(_, _)
SeqsUpTo(S, n) ==
    IF n = 0 THEN {<<>>}
    ELSE LET shorter == SeqsUpTo(S, n - 1)
         IN  shorter \cup {Append(s, x) : s \in shorter, x \in S}

PrefixChoices ==
    { [is_str |-> TRUE,  str |-> <<>>,                 dict |-> <<>>],
      [is_str |-> TRUE,  str |-> <<"{app}", "{cls}">>, dict |-> <<>>],
      [is_str |-> FALSE, str |-> <<>>,                 dict |-> <<>>],
      [is_str |-> FALSE, str |-> <<>>,                 dict |-> (AppB :> <<"X">>)] }

UrlPrefixChoices == { <<"/","h">>, <<"/","h","/">> }

Configs ==
    [APPS : SeqsUpTo(Apps, MaxApps), PREFIX : PrefixChoices,
     URL_PREFIX : UrlPrefixChoices, settings_registry : BOOLEAN]

NoCall == [op |-> "none"]
NoHidden == [ctx \in {"anon", "staff"} |-> {}]

Init ==
    /\ config \in Configs
    /\ pc = 0
    /\ registry = EmptyRegistry
    /\ types = <<>>
    /\ calls = <<>>
    /\ hidden = NoHidden
    /\ submissions = <<>>
    /\ last = NoCall

Next ==
    \/ AddSettingsApp
    \/ SkipSettingsApp
    \/ AddConfiguredApp
    \/ ResolveType

Spec == Init /\ [][Next]_vars

(***************************************************************************)
(* types/core.py: PagesQueryMixin                                          *)
(***************************************************************************)
\* wagtail.core.utils.camelcase_to_underscore:
\*   re.sub('(((?<=[a-z])[A-Z])|([A-Z](?![A-Z]|$)))', '_\\1', s).lower().strip('_')
\* an upper-case letter gets "_" in front when a lower-case letter precedes it
\* or when a character that is not upper-case follows it
RECURSIVE underscore_sub(_, _)
underscore_sub(s, i) ==
    IF i > Len(s) THEN <<>>
    ELSE (IF /\ IsUpper(s[i])
             /\ \/ i > 1 /\ IsLower(s[i - 1])
                \/ i < Len(s) /\ ~IsUpper(s[i + 1])
          THEN <<"_", s[i]>>
          ELSE <<s[i]>>) \o underscore_sub(s, i + 1)

camelcase_to_underscore(s) ==
    lstrip(rstrip(str_lower(underscore_sub(s, 1)), "_"), "_")

\* the names read off info.field_asts[0].selection_set.selections: every node
\* that is not an InlineFragment contributes f.name.value
selection_names(selections) ==
    {camelcase_to_underscore(selections[i].name) :
        i \in {j \in 1..Len(selections) : selections[j].kind # "InlineFragment"}}

\* the select_related(pf) calls of resolve_pages
prefetch_joins(reg, selections) ==
    reg.page_prefetch_fields \cap selection_names(selections)

Ids(rows) == [i \in 1..Len(rows) |-> rows[i].id]

\* resolve_pages(info, parent): value is the select_related joins and the ids
\* of the rows in result order
\* variant of resolve_pages that does not call with_page_permissions
resolve_pages_unfiltered(reg, context, selections, parent) ==
    LET args  == [context |-> context, selections |-> selections, parent |-> parent]
        joins == prefetch_joins(reg, selections)
        parent_page == first({p \in PageRows : \E x \in parent : p.id = x})
    IN  IF parent # None /\ parent_page = None
        THEN Raise("pages", args, "ValueError")
        ELSE LET query == IF parent = None THEN PageRows
                          ELSE child_of(PageRows, CHOOSE p \in parent_page : TRUE)
             IN  Return("pages", args,
                        [joins |-> joins,
                         rows  |-> Ids(order_by_path(live(query)))])

resolve_pages(reg, context, selections, parent) ==
    LET args  == [context |-> context, selections |-> selections, parent |-> parent]
        joins == prefetch_joins(reg, selections)
        parent_page == first({p \in PageRows : \E x \in parent : p.id = x})
    IN  IF parent # None /\ parent_page = None
        THEN Raise("pages", args, "ValueError")
        ELSE LET query == IF parent = None THEN PageRows
                          ELSE child_of(PageRows, CHOOSE p \in parent_page : TRUE)
             IN  Return("pages", args,
                        [joins |-> joins,
                         rows  |-> Ids(order_by_path(
                                       live(with_page_permissions(context, query))))])

\* variant of the url_path key that leaves out rstrip('/')
url_path_key_no_rstrip(url_prefix, url) == url_prefix \o url \o <<"/">>

\* the url_path looked up for a url argument
url_path_key(url_prefix, url) == url_prefix \o rstrip(url, "/") \o <<"/">>

\* resolve_page(info, id, url): value is the id of the page found, or None
\* variant of resolve_page that tests url before id
resolve_page_url_first(settings, context, id, url) ==
    LET args == [context |-> context, id |-> id, url |-> url]
    IN  IF id = None /\ url = None
        THEN Raise("page", args, "ValueError")
        ELSE LET query == IF url # None
                          THEN {p \in PageRows : \E u \in url :
                                   p.url_path = url_path_key(settings.URL_PREFIX, u)}
                          ELSE {p \in PageRows : \E x \in id : p.id = x}
                 page  == first(live(with_page_permissions(context, query)))
             IN  Return("page", args, {p.id : p \in page})

resolve_page(settings, context, id, url) ==
    LET args == [context |-> context, id |-> id, url |-> url]
    IN  IF id = None /\ url = None
        THEN Raise("page", args, "ValueError")
        ELSE LET query == IF id # None
                          THEN {p \in PageRows : \E x \in id : p.id = x}
                          ELSE {p \in PageRows : \E u \in url :
                                   p.url_path = url_path_key(settings.URL_PREFIX, u)}
                 page  == first(live(with_page_permissions(context, query)))
             IN  Return("page", args, {p.id : p \in page})

\* resolve_show_in_menus(info): the ids of the rows in result order
resolve_show_in_menus(context) ==
    Return("show_in_menus", [context |-> context],
           Ids(order_by_path(live(with_page_permissions(
                   context, {p \in PageRows : p.show_in_menus})))))

(***************************************************************************)
(* actions.py: the mutate function that _add_form gives a form's mutation  *)
(***************************************************************************)
\* node is the _node of the closure and url_prefix the one add_app passed in;
\* errors is form.errors.items() of the form that instance.get_form binds, and
\* form.is_valid() is that there are none. value.submitted tells whether
\* instance.process_form_submission was called.
\* variant of mutate that calls process_form_submission before is_valid is read
mutate_always_submit(reg, node, context, url, errors) ==
    LET args  == [node |-> node, context |-> context, url |-> url, errors |-> errors]
        query == {p \in PageRows : p.url_path = url_path_key(reg.forms[node].url_prefix, url)}
        instance == first(live(with_page_permissions(context, query)))
    IN  IF instance = None \/ \E p \in instance : ~issubclass(p.cls, "AbstractForm")
        THEN Raise("mutate", args, "AttributeError")
        ELSE Return("mutate", args,
                    [type |-> reg.forms[node].serial,
                     result |-> IF Len(errors) = 0 THEN "OK" ELSE "FAIL",
                     errors |-> IF Len(errors) = 0 THEN None
                                ELSE Some([i \in 1..Len(errors) |->
                                              [field |-> errors[i][1], messages |-> errors[i][2]]]),
                     submitted |-> {p.id : p \in instance}])

mutate(reg, node, context, url, errors) ==
    LET args  == [node |-> node, context |-> context, url |-> url, errors |-> errors]
        query == {p \in PageRows : p.url_path = url_path_key(reg.forms[node].url_prefix, url)}
        instance == first(live(with_page_permissions(context, query)))
    IN  IF instance = None \/ \E p \in instance : ~issubclass(p.cls, "AbstractForm")
        THEN Raise("mutate", args, "AttributeError")
        ELSE IF Len(errors) = 0
        THEN Return("mutate", args,
                    [type |-> reg.forms[node].serial, result |-> "OK",
                     errors |-> None, submitted |-> {p.id : p \in instance}])
        ELSE Return("mutate", args,
                    [type |-> reg.forms[node].serial, result |-> "FAIL",
                     errors |-> Some([i \in 1..Len(errors) |->
                                         [field |-> errors[i][1], messages |-> errors[i][2]]]),
                     submitted |-> None])

(***************************************************************************)
(* Requests                                                                *)
(***************************************************************************)
\* most process_form_submission calls followed in one run
MaxSubmissions == 1

Field(n) == [kind |-> "Field", name |-> n]
FragmentSpread(n) == [kind |-> "FragmentSpread", name |-> n]
\* an inline fragment has a type condition and no name
InlineFragment == [kind |-> "InlineFragment", name |-> <<>>]

SelectionChoices ==
    { <<Field(<<"i","d">>), Field(<<"u","r","l","P","a","t","h">>)>>,
      <<Field(<<"t","i","t","l","e">>), Field(<<"b","l","o","g">>)>>,
      <<Field(<<"B","l","o","g">>), Field(<<"f","o","r","m">>), Field(<<"p","r","o","m","o">>)>>,
      <<Field(<<"i","d">>), InlineFragment>>,
      <<Field(<<"i","d">>), FragmentSpread(<<"B","l","o","g">>)>> }

UrlChoices ==
    { <<"a","b">>, <<"/","a","b">>, <<"a","b","/">>, <<"/","a","b","/">>, <<"/","a","b","/","/">>, <<"/","c">>, <<"/","d">>, <<>> }

IdChoices == {3, 5, 6, 9}
ParentChoices == {1, 2, 3, 9}

Msg == <<<<"I","n","v","a","l","i","d">>>>
ErrorChoices ==
    { <<>>,
      << <<<<"e","m","a","i","l">>, Msg>> >>,
      << <<<<"e","m","a","i","l">>, Msg>>, <<<<"n","a","m","e">>, Msg>> >>,
      << <<<<"n","a","m","e">>, Msg>>, <<<<"e","m","a","i","l">>, Msg>> >> }

ResolvePages ==
    /\ \E context \in Contexts, selections \in SelectionChoices,
          parent \in {None} \cup {Some(x) : x \in ParentChoices} :
          last' = resolve_pages(registry, context, selections, parent)
    /\ UNCHANGED <<config, pc, registry, types, calls, hidden, submissions>>

ResolvePage ==
    /\ \E context \in Contexts,
          id \in {None} \cup {Some(x) : x \in IdChoices},
          url \in {None} \cup {Some(u) : u \in UrlChoices} :
          last' = resolve_page(config, context, id, url)
    /\ UNCHANGED <<config, pc, registry, types, calls, hidden, submissions>>

ResolveShowInMenus ==
    /\ \E context \in Contexts : last' = resolve_show_in_menus(context)
    /\ UNCHANGED <<config, pc, registry, types, calls, hidden, submissions>>

Mutate ==
    /\ Len(submissions) < MaxSubmissions
    /\ \E node \in DOMAIN registry.forms, context \in Contexts,
          url \in UrlChoices, errors \in ErrorChoices :
          LET r == mutate(registry, node, context, url, errors)
          IN  /\ last' = r
              /\ submissions' =
                     IF r.raised = "" /\ (CHOOSE v \in r.value : TRUE).submitted # None
                     THEN Append(submissions,
                                 CHOOSE x \in (CHOOSE v \in r.value : TRUE).submitted : TRUE)
                     ELSE submissions
    /\ UNCHANGED <<config, pc, registry, types, calls, hidden>>

\* the startup configurations whose registry the requests run against
QueryConfigs ==
    {c \in Configs : /\ ~c.PREFIX.is_str /\ c.PREFIX.dict = <<>>
                     /\ ~c.settings_registry
                     /\ Len(c.APPS) = 1}

HiddenChoices ==
    {[context \in Contexts |-> IF context = "anon" THEN h ELSE {}] :
        h \in {{}, {3}, {4, 6}, {2, 3, 7}}}

QueryInit ==
    /\ config \in QueryConfigs
    /\ pc = Len(config.APPS) + 1
    /\ \E w \in {add_apps_with_settings(config)} :
           /\ registry = w.registry
           /\ types = w.types
           /\ calls = w.calls
    /\ hidden \in HiddenChoices
    /\ submissions = <<>>
    /\ last = NoCall

QueryNext ==
    \/ ResolvePages
    \/ ResolvePage
    \/ ResolveShowInMenus
    \/ Mutate

QuerySpec == QueryInit /\ [][QueryNext]_vars

(***************************************************************************)
(* Properties of the registration pass                                     *)
(***************************************************************************)
\* the keys under which class c holds an entry in each partition
KeysOf(c) ==
    [pages            |-> {k \in DOMAIN registry.pages : k = c},
     forms            |-> {n \in DOMAIN registry.forms : registry.forms[n].model = c},
     settings         |-> {n \in DOMAIN registry.settings : registry.settings[n] = c},
     snippets         |-> {k \in DOMAIN registry.snippets : k = c},
     snippets_by_name |-> {n \in DOMAIN registry.snippets_by_name :
                              registry.snippets_by_name[n].model = c},
     django           |-> {n \in DOMAIN registry.django : registry.django[n].model = c}]

PartitionNames == {"pages", "forms", "settings", "snippets", "django"}

\* the partitions in which class c appears
PartitionsOf(c) == {p \in PartitionNames : KeysOf(c)[p] # {}}

\* the serials of the object types built for class c
BuildsOf(c) ==
    {i \in 1..Len(types) : types[i].model = c /\ types[i].base = "DjangoObjectType"}

IsRegistered(c) == BuildsOf(c) # {}

\* the partition the precedence snippet > form > page > setting > generic names
KindOf(c) ==
    IF InSeq(c, get_snippet_models) THEN "snippets"
    ELSE IF issubclass(c, "AbstractForm") THEN "forms"
    ELSE IF issubclass(c, "wagtailPage") THEN "pages"
    ELSE IF issubclass(c, "BaseSetting") THEN "settings"
    ELSE "django"

\* the entry of c in its name-keyed map was taken over by another class of the
\* same kind: a setting with c's display name, or else a class built under the
\* node name of one of c's types
NameTakenByOther(c) ==
    IF KindOf(c) = "settings"
    THEN \E d \in Classes \ {c} :
            /\ IsRegistered(d) /\ KindOf(d) = "settings"
            /\ capfirst(verbose_name(d)) = capfirst(verbose_name(c))
    ELSE \E d \in Classes \ {c} :
            /\ KindOf(d) = KindOf(c)
            /\ \E i \in BuildsOf(c), j \in BuildsOf(d) : types[j].name = types[i].name

\* C1 as claimed: every registered class appears in exactly one partition, the
\* one its classification names; a form class has no entry in pages.
C1_ExactlyOnePartition ==
    \A c \in Classes : IsRegistered(c) => PartitionsOf(c) = {KindOf(c)}

\* C1 amended: every registered class has entries only in the partitions its
\* classification selects, which for a form class are pages and forms both;
\* the class-keyed entries (pages, snippets) are always there, a name-keyed
\* entry is there unless another class took the same name.
C1_Buckets ==
    \A c \in Classes : IsRegistered(c) =>
        LET home == IF KindOf(c) = "forms" THEN {"pages", "forms"} ELSE {KindOf(c)}
        IN  /\ PartitionsOf(c) \subseteq home
            /\ home \cap {"pages", "snippets"} \subseteq PartitionsOf(c)
            /\ PartitionsOf(c) = home \/ NameTakenByOther(c)

C1_Witness ==
    /\ IsRegistered(Form) /\ PartitionsOf(Form) = {"pages", "forms"}
    /\ IsRegistered(Promo) /\ PartitionsOf(Promo) = {"snippets"}
    /\ IsRegistered(Conf) /\ PartitionsOf(Conf) = {"settings"}
    /\ IsRegistered(AuthorA) /\ PartitionsOf(AuthorA) = {}

\* C2 as claimed: when add_apps_with_settings has run, no class went through a
\* type builder more than once and no class owns more than one entry in any
\* partition, snippets_by_name, forms and django included.
C2_RegisteredAtMostOnce ==
    DriverDone =>
        \A c \in Classes :
            /\ Cardinality(BuildsOf(c)) <= 1
            /\ \A p \in DOMAIN KeysOf(c) : Cardinality(KeysOf(c)[p]) <= 1

\* the run registered some source twice, or one of its add_app calls had a
\* class more than once in its snippets + models list
RepeatsInRun ==
    \/ \E j, k \in 1..Len(calls) : j # k /\ calls[j].app = calls[k].app
    \/ \E k \in 1..Len(calls) :
          \E i, j \in 1..Len(to_register(calls[k].app)) :
              i # j /\ to_register(calls[k].app)[i] = to_register(calls[k].app)[j]

\* C3 as claimed: one add_app call builds each class at most once, however
\* often the class occurs in snippets + models; and a driver run in which a
\* source was registered twice, or a call listed a class twice, ends with one
\* entry per class: no class owns two entries in any one map of the registry,
\* and every registered class has its entry unless another class took its name.
C3_OneEntryPerClass ==
    /\ \A k \in 1..Len(calls) : \A c \in Classes :
          Cardinality({i \in BuildsOf(c) : calls[k].first <= i /\ i <= calls[k].last}) <= 1
    /\ (DriverDone /\ RepeatsInRun) =>
          \A c \in Classes : IsRegistered(c) =>
              /\ \A p \in DOMAIN KeysOf(c) : Cardinality(KeysOf(c)[p]) <= 1
              /\ (\E p \in DOMAIN KeysOf(c) : KeysOf(c)[p] # {}) \/ NameTakenByOther(c)

\* the class an instance handed to resolve_type stands for
InstanceClass(instance) == {p.cls : p \in {q \in PageRows : q.id = instance.id}}

\* the type most recently registered for class c
LatestType(c) ==
    types[CHOOSE i \in BuildsOf(c) : \A j \in BuildsOf(c) : j <= i]

\* C7: for a class that has an entry in pages, resolve_type of an instance of
\* the class, or of the id of a page of the class, returns the type that was
\* registered for the class (pc' = pc: the step is a resolve_type call).
C7_RoundTrip ==
    [][ (last'.op = "resolve_type" /\ pc' = pc) =>
            \A c \in InstanceClass(last'.args) :
                c \in DOMAIN registry.pages =>
                    /\ last'.raised = ""
                    /\ last'.value = Some(LatestType(c))
                    /\ LatestType(c).model = c
      ]_vars

C7_Witness ==
    /\ last.op = "resolve_type"
    /\ last.args.is_int
    /\ InstanceClass(last.args) = {Form}
    /\ last.raised = ""
    /\ \E t \in last.value : t.model = Form /\ "PageInterface" \in t.interfaces

(***************************************************************************)
(* Properties of the query root                                            *)
(***************************************************************************)
\* what a call returned: the element of last.value
Returned == CHOOSE v \in last.value : TRUE

\* C4 as claimed: page fails with the invalid-argument error exactly when the
\* call does not supply exactly one of id and url.
C4_ExactlyOneArgument ==
    last.op = "page" =>
        (last.raised = "ValueError" <=>
            ~(Cardinality(last.args.id) + Cardinality(last.args.url) = 1))

\* C4 amended: page fails with the invalid-argument error exactly when neither
\* id nor url is supplied; a call that supplies id, with or without url, looks
\* the page up by id, so that a page it returns has that id.
C4_AtLeastOneArgument ==
    last.op = "page" =>
        /\ last.raised = "ValueError" <=> (last.args.id = None /\ last.args.url = None)
        /\ (last.args.id # None /\ last.raised = "") => Returned \subseteq last.args.id

C4_Witness ==
    /\ last.op = "page"
    /\ last.args.id = Some(3)
    /\ last.args.url = Some(<<"/","c">>)
    /\ last.raised = ""
    /\ Returned = Some(3)

AllSlashes(s) == \A i \in 1..Len(s) : s[i] = "/"

\* v is u with slashes added at its end
AddsTrailingSlashes(u, v) ==
    Len(u) <= Len(v) /\ SubSeq(v, 1, Len(u)) = u /\ AllSlashes(SubSeq(v, Len(u) + 1, Len(v)))

\* v is u with slashes added at its start
AddsLeadingSlashes(u, v) ==
    /\ Len(u) <= Len(v)
    /\ SubSeq(v, Len(v) - Len(u) + 1, Len(v)) = u
    /\ AllSlashes(SubSeq(v, 1, Len(v) - Len(u)))

\* u and v differ in nothing but slashes at their ends
SameButTrailingSlashes(u, v) == AddsTrailingSlashes(u, v) \/ AddsTrailingSlashes(v, u)

\* u and v differ in nothing but slashes at their starts and ends
SameButOuterSlashes(u, v) ==
    \E w \in UrlChoices :
        /\ \E x \in UrlChoices : AddsLeadingSlashes(w, x) /\ AddsTrailingSlashes(x, u)
        /\ \E y \in UrlChoices : AddsLeadingSlashes(w, y) /\ AddsTrailingSlashes(y, v)

\* two page(url=...) calls in a row, made in the same request context
TwoUrlLookups ==
    /\ last.op = "page" /\ last'.op = "page"
    /\ last.args.id = None /\ last'.args.id = None
    /\ last.args.url # None /\ last'.args.url # None
    /\ last.args.context = last'.args.context

\* C5 as claimed: two url arguments that differ only in a leading and/or a
\* trailing slash resolve to the same record.
C5_OuterSlashesIgnored ==
    [][ TwoUrlLookups =>
            \A u \in last.args.url, v \in last'.args.url :
                SameButOuterSlashes(u, v) => last'.value = last.value ]_vars

\* C5 amended: two url arguments that differ only in trailing slashes resolve
\* to the same record; a leading slash is part of the key.
C5_TrailingSlashesIgnored ==
    [][ TwoUrlLookups =>
            \A u \in last.args.url, v \in last'.args.url :
                SameButTrailingSlashes(u, v) => last'.value = last.value ]_vars

C5_Witness ==
    /\ last.op = "page"
    /\ last.args.id = None
    /\ last.args.url = Some(<<"a","b","/">>)
    /\ config.URL_PREFIX = <<"/","h","/">>
    /\ last.raised = ""
    /\ Returned = Some(3)

\* the ids of the pages a call returned
ReturnedIds ==
    IF last.op = "page" THEN Returned
    ELSE IF last.op = "pages" THEN {Returned.rows[i] : i \in 1..Len(Returned.rows)}
    ELSE IF last.op = "show_in_menus" THEN {Returned[i] : i \in 1..Len(Returned)}
    ELSE {}

\* C6: page, pages and showInMenus never return a page that the permission
\* filter hides from the context of the request.
C6_PermissionEnforced ==
    (last.op \in {"page", "pages", "show_in_menus"} /\ last.raised = "") =>
        ReturnedIds \cap hidden[last.args.context] = {}

C6_Witness ==
    /\ last.op = "pages"
    /\ last.args.context = "anon"
    /\ last.args.parent = Some(2)
    /\ hidden["anon"] = {4, 6}
    /\ last.raised = ""
    /\ Returned.rows = <<3, 7>>

\* C8: a mutation whose url resolves to a live, visible form page returns "OK"
\* without errors and calls the submission handler once when the form is
\* valid, and returns "FAIL" with one (field, messages) entry per failing
\* field, in the order the form reports them, without calling the handler,
\* when it is not.
C8_FormOutcomes ==
    [][ last'.op = "mutate" =>
            LET a == last'.args
                v == CHOOSE x \in last'.value : TRUE
                target == {p \in PageRows :
                              /\ p.url_path = registry.forms[a.node].url_prefix
                                                  \o rstrip(a.url, "/") \o <<"/">>
                              /\ p.live /\ p.id \notin hidden[a.context]
                              /\ issubclass(p.cls, "AbstractForm")}
            IN  /\ target # {} <=> last'.raised = ""
                /\ (last'.raised = "" /\ a.errors = <<>>) =>
                       /\ v.result = "OK"
                       /\ v.errors = None
                       /\ \E p \in target : submissions' = Append(submissions, p.id)
                /\ (last'.raised = "" /\ a.errors # <<>>) =>
                       /\ v.result = "FAIL"
                       /\ \E e \in v.errors :
                             /\ Len(e) = Len(a.errors)
                             /\ \A i \in 1..Len(e) :
                                   /\ e[i].field = a.errors[i][1]
                                   /\ e[i].messages = a.errors[i][2]
                       /\ submissions' = submissions
                /\ last'.raised # "" => submissions' = submissions
      ]_vars

C8_Witness ==
    /\ last.op = "mutate"
    /\ last.raised = ""
    /\ last.args.errors = <<>>
    /\ Returned.result = "OK"
    /\ submissions = <<4>>

\* the names requested as fields in the selection of a pages query
RequestedFields(selections) ==
    {camelcase_to_underscore(selections[i].name) :
        i \in {j \in 1..Len(selections) : selections[j].kind = "Field"}}

\* C9 as claimed: the joins of a pages query are the page_prefetch_fields names
\* that are among the requested fields; no join is added for a name that was
\* not requested as a field.
C9_SelectivePrefetch ==
    (last.op = "pages" /\ last.raised = "") =>
        Returned.joins = registry.page_prefetch_fields \cap RequestedFields(last.args.selections)

\* the direct children of the page with id x
ChildrenOf(x) ==
    {p \in PageRows : \E q \in PageRows :
        q.id = x /\ Len(p.path) = Len(q.path) + 1 /\ SubSeq(p.path, 1, Len(q.path)) = q.path}

\* every page below the page with id x
DescendantsOf(x) ==
    {p \in PageRows : \E q \in PageRows :
        q.id = x /\ Len(p.path) > Len(q.path) /\ SubSeq(p.path, 1, Len(q.path)) = q.path}

PathOf(x) == (CHOOSE p \in PageRows : p.id = x).path

\* rows lists exactly the live pages of S visible to context, by ascending path
ListsByPath(rows, S, context) ==
    /\ {rows[i] : i \in 1..Len(rows)} =
           {p.id : p \in {q \in S : q.live /\ q.id \notin hidden[context]}}
    /\ \A i, j \in 1..Len(rows) : i < j => PathLess(PathOf(rows[i]), PathOf(rows[j]))

\* C10 as claimed: pages(parent=p) lists the live, visible descendants of page
\* p by ascending path, and fails with the not-found error when no page has id p.
C10_Descendants ==
    (last.op = "pages" /\ last.args.parent # None) =>
        \A x \in last.args.parent :
            IF x \in PageIds
            THEN last.raised = ""
                 /\ ListsByPath(Returned.rows, DescendantsOf(x), last.args.context)
            ELSE last.raised = "ValueError"

\* C10 amended: pages(parent=p) lists the live, visible direct children of
\* page p by ascending path, and fails with the not-found error when no page
\* has id p.
C10_Children ==
    (last.op = "pages" /\ last.args.parent # None) =>
        \A x \in last.args.parent :
            IF x \in PageIds
            THEN last.raised = ""
                 /\ ListsByPath(Returned.rows, ChildrenOf(x), last.args.context)
            ELSE last.raised = "ValueError"

C10_Witness ==
    /\ last.op = "pages"
    /\ last.args.parent = Some(2)
    /\ last.args.context = "staff"
    /\ last.raised = ""
    /\ Returned.rows = <<3, 4, 7>>

====
